---- MODULE Spec2Model ----
(***************************************************************************)
(* Model of the user-input logging hook (log-user-inputs.py).              *)
(*                                                                         *)
(* One run of the hook is one process p: it reads a JSON payload from      *)
(* standard input, extracts recent user messages from the transcript,      *)
(* appends one line to the global log and to the daily log and updates     *)
(* the statistics file.  Runs share the files and nothing else.            *)
(*                                                                         *)
(* Text is a sequence of one-character strings, so that strip(),           *)
(* startswith(), len(), slicing and the formatting of a log line are       *)
(* computed as the code computes them.  A character outside printable      *)
(* ASCII is written as its code point, "U+00A0".  No sample text has a     *)
(* quote, a backslash or, once stripped, a character outside printable     *)
(* ASCII, so repr() of a logged str is the text between two apostrophes.   *)
(***************************************************************************)
EXTENDS Integers, Sequences, FiniteSets, TLC

VARIABLES
    clock,          \* the wall clock, seconds since 2025-01-01 00:00:00
    faults,         \* the file operations the file system refuses
    transcript,     \* the lines of the transcript file t.jsonl
    main_log,       \* the lines of ~/.claude/user-inputs-log.txt
    daily_logs,     \* date |-> the lines of hooks/user-inputs-<date>.log
    stats_file,     \* hooks/user-input-stats.json
    pc,             \* pc[p]: where run p is
    event,          \* event[p]: the payload run p read from standard input
    timestamp,      \* timestamp[p]: main's local timestamp
    user_context,   \* user_context[p]: main's local user_context
    log_entry,      \* log_entry[p]: main's local log_entry
    stats,          \* stats[p]: update_statistics's local stats
    exit_code       \* exit_code[p]: the exit status of run p, -1 while running

vars == <<clock, faults, transcript, main_log, daily_logs, stats_file,
          pc, event, timestamp, user_context, log_entry, stats, exit_code>>

files == <<main_log, daily_logs, stats_file>>

locals == <<pc, event, timestamp, user_context, log_entry, stats, exit_code>>

(***************************************************************************)
(* Bounds of the model.                                                    *)
(***************************************************************************)
\* number of runs executed one after another
MaxRuns == 2

\* number of runs that may overlap
MaxOverlap == 3

\* the clock at the start: 2025-01-01 23:59:59
ClockStart == 86399

\* number of seconds the clock may advance
MaxTicks == 1

\* largest number of filler lines between the head and the tail of a transcript
MaxFill == 20

\* longest tail of a generated transcript
MaxTail == 4

(***************************************************************************)
(* CONFIG and the other constants of the program.                          *)
(***************************************************************************)
max_transcript_lines == 20

max_messages_per_capture == 3

min_message_length == 10

enable_daily_logs == TRUE

enable_statistics == TRUE

\* session_id[:8] in create_log_entry
SessionPrefixLen == 8

\* str(v)[:200] in create_log_entry
MaxValueLen == 200

(***************************************************************************)
(* Sample texts.                                                           *)
(***************************************************************************)
\* 'Please refactor the parser module' (33 characters)
T_Refactor ==
    <<"P", "l", "e", "a", "s", "e", " ", "r", "e", "f", "a", "c", "t", "o", "r", " ", "t", "h", "e", " ", "p", "a", "r", "s", "e", "r", " ", "m", "o", "d", "u", "l", "e">>

\* '  Add unit tests now  ' (22 characters)
T_AddTests ==
    <<" ", " ", "A", "d", "d", " ", "u", "n", "i", "t", " ", "t", "e", "s", "t", "s", " ", "n", "o", "w", " ", " ">>

\* 'fix it' (6 characters)
T_Short ==
    <<"f", "i", "x", " ", "i", "t">>

\* 'nine char' (9 characters)
T_Nine ==
    <<"n", "i", "n", "e", " ", "c", "h", "a", "r">>

\* 'ten chars!' (10 characters)
T_Ten ==
    <<"t", "e", "n", " ", "c", "h", "a", "r", "s", "!">>

\* '   fix it     ' (14 characters)
T_PaddedShort ==
    <<" ", " ", " ", "f", "i", "x", " ", "i", "t", " ", " ", " ", " ", " ">>

\* '<command-name>/clear</command-name>' (35 characters)
T_Command ==
    <<"<", "c", "o", "m", "m", "a", "n", "d", "-", "n", "a", "m", "e", ">", "/", "c", "l", "e", "a", "r", "<", "/", "c", "o", "m", "m", "a", "n", "d", "-", "n", "a", "m", "e", ">">>

\* 'Stop hook feedback: tests failed' (32 characters)
T_StopHook ==
    <<"S", "t", "o", "p", " ", "h", "o", "o", "k", " ", "f", "e", "e", "d", "b", "a", "c", "k", ":", " ", "t", "e", "s", "t", "s", " ", "f", "a", "i", "l", "e", "d">>

\* '[Request interrupted by user]' (29 characters)
T_Interrupted ==
    <<"[", "R", "e", "q", "u", "e", "s", "t", " ", "i", "n", "t", "e", "r", "r", "u", "p", "t", "e", "d", " ", "b", "y", " ", "u", "s", "e", "r", "]">>

\* 'Caveat: the messages below were generated' (41 characters)
T_Caveat ==
    <<"C", "a", "v", "e", "a", "t", ":", " ", "t", "h", "e", " ", "m", "e", "s", "s", "a", "g", "e", "s", " ", "b", "e", "l", "o", "w", " ", "w", "e", "r", "e", " ", "g", "e", "n", "e", "r", "a", "t", "e", "d">>

\* '  Caveat: local command output' (30 characters)
T_PaddedCaveat ==
    <<" ", " ", "C", "a", "v", "e", "a", "t", ":", " ", "l", "o", "c", "a", "l", " ", "c", "o", "m", "m", "a", "n", "d", " ", "o", "u", "t", "p", "u", "t">>

\* 'ok' (2 characters)
T_Ok ==
    <<"o", "k">>

\* 'Sure, refactoring the parser now' (32 characters)
T_Assistant ==
    <<"S", "u", "r", "e", ",", " ", "r", "e", "f", "a", "c", "t", "o", "r", "i", "n", "g", " ", "t", "h", "e", " ", "p", "a", "r", "s", "e", "r", " ", "n", "o", "w">>

\* 'Please rewrite the whole logging pipeline so that it is easier to test' (70 characters)
T_Long ==
    <<"P", "l", "e", "a", "s", "e", " ", "r", "e", "w", "r", "i", "t", "e", " ", "t", "h", "e", " ", "w", "h", "o", "l", "e", " ", "l", "o", "g", "g", "i", "n", "g", " ", "p", "i", "p", "e", "l", "i", "n", "e", " ", "s", "o", " ", "t", "h", "a", "t", " ", "i", "t", " ", "i", "s", " ", "e", "a", "s", "i", "e", "r", " ", "t", "o", " ", "t", "e", "s", "t">>

\* 'An earlier request outside the scan window' (42 characters)
T_Old ==
    <<"A", "n", " ", "e", "a", "r", "l", "i", "e", "r", " ", "r", "e", "q", "u", "e", "s", "t", " ", "o", "u", "t", "s", "i", "d", "e", " ", "t", "h", "e", " ", "s", "c", "a", "n", " ", "w", "i", "n", "d", "o", "w">>

\* 'explain the failing build' (25 characters)
T_Prompt ==
    <<"e", "x", "p", "l", "a", "i", "n", " ", "t", "h", "e", " ", "f", "a", "i", "l", "i", "n", "g", " ", "b", "u", "i", "l", "d">>

\* 'Bash' (4 characters)
S_Bash ==
    <<"B", "a", "s", "h">>

\* 'Edit' (4 characters)
S_Edit ==
    <<"E", "d", "i", "t">>

\* 'unknown' (7 characters)
S_unknown ==
    <<"u", "n", "k", "n", "o", "w", "n">>

\* 'abc12345-6789' (13 characters)
S_SidLong ==
    <<"a", "b", "c", "1", "2", "3", "4", "5", "-", "6", "7", "8", "9">>

\* 'Tool: ' (6 characters)
S_ToolPrefix ==
    <<"T", "o", "o", "l", ":", " ">>

\* ' | User Context: ' (17 characters)
S_UserContext ==
    <<" ", "|", " ", "U", "s", "e", "r", " ", "C", "o", "n", "t", "e", "x", "t", ":", " ">>

\* ' | No user context detected' (27 characters)
S_NoContext ==
    <<" ", "|", " ", "N", "o", " ", "u", "s", "e", "r", " ", "c", "o", "n", "t", "e", "x", "t", " ", "d", "e", "t", "e", "c", "t", "e", "d">>

\* ' | ' (3 characters)
S_Sep ==
    <<" ", "|", " ">>

\* ': ' (2 characters)
S_Colon ==
    <<":", " ">>

\* '...' (3 characters)
S_Ellipsis ==
    <<".", ".", ".">>

\* 'recent_user_messages' (20 characters)
S_recent_user_messages ==
    <<"r", "e", "c", "e", "n", "t", "_", "u", "s", "e", "r", "_", "m", "e", "s", "s", "a", "g", "e", "s">>

\* 'prompt' (6 characters)
S_prompt ==
    <<"p", "r", "o", "m", "p", "t">>

\* 'text' (4 characters)
S_text ==
    <<"t", "e", "x", "t">>

\* '<command-' (9 characters)
P_command ==
    <<"<", "c", "o", "m", "m", "a", "n", "d", "-">>

\* 'Stop hook feedback' (18 characters)
P_StopHook ==
    <<"S", "t", "o", "p", " ", "h", "o", "o", "k", " ", "f", "e", "e", "d", "b", "a", "c", "k">>

\* '[Request interrupted' (20 characters)
P_Interrupted ==
    <<"[", "R", "e", "q", "u", "e", "s", "t", " ", "i", "n", "t", "e", "r", "r", "u", "p", "t", "e", "d">>

\* 'Caveat:' (7 characters)
P_Caveat ==
    <<"C", "a", "v", "e", "a", "t", ":">>

\* 'user_message' (12 characters)
S_user_message ==
    <<"u", "s", "e", "r", "_", "m", "e", "s", "s", "a", "g", "e">>

\* 'message' (7 characters)
S_message ==
    <<"m", "e", "s", "s", "a", "g", "e">>

\* 'input' (5 characters)
S_input ==
    <<"i", "n", "p", "u", "t">>

\* 'context' (7 characters)
S_context ==
    <<"c", "o", "n", "t", "e", "x", "t">>

\* 'user_input' (10 characters)
S_user_input ==
    <<"u", "s", "e", "r", "_", "i", "n", "p", "u", "t">>

\* 'query' (5 characters)
S_query ==
    <<"q", "u", "e", "r", "y">>

\* 'request' (7 characters)
S_request ==
    <<"r", "e", "q", "u", "e", "s", "t">>

\* 'content' (7 characters)
S_content ==
    <<"c", "o", "n", "t", "e", "n", "t">>

\* 'user_context' (12 characters)
S_user_context ==
    <<"u", "s", "e", "r", "_", "c", "o", "n", "t", "e", "x", "t">>

\* 'conversation_context' (20 characters)
S_conversation_context ==
    <<"c", "o", "n", "v", "e", "r", "s", "a", "t", "i", "o", "n", "_", "c", "o", "n", "t", "e", "x", "t">>

\* 'An unrelated note to the assistant' (34 characters)
T_Other ==
    <<"A", "n", " ", "u", "n", "r", "e", "l", "a", "t", "e", "d", " ", "n", "o", "t", "e", " ", "t", "o", " ", "t", "h", "e", " ", "a", "s", "s", "i", "s", "t", "a", "n", "t">>

\* '\xa0nine char\xa0' (11 characters): 'nine char' between two no-break spaces
T_NbspNine ==
    <<"U+00A0", "n", "i", "n", "e", " ", "c", "h", "a", "r", "U+00A0">>

\* '\x0cten chars!\u3000' (12 characters): 'ten chars!' after a form feed and
\* before an ideographic space
T_FormFeedTen ==
    <<"U+000C", "t", "e", "n", " ", "c", "h", "a", "r", "s", "!", "U+3000">>

\* '2025-01-' (8 characters)
S_YearMonth ==
    <<"2", "0", "2", "5", "-", "0", "1", "-">>

(***************************************************************************)
(* Python's str and list operations.                                       *)
(***************************************************************************)
\* the characters c with c.isspace(), which str.strip() removes
Whitespace ==
    {" ", "\t", "\n", "\r", "U+000B", "U+000C",
     "U+001C", "U+001D", "U+001E", "U+001F", "U+0085", "U+00A0", "U+1680",
     "U+2000", "U+2001", "U+2002", "U+2003", "U+2004", "U+2005", "U+2006",
     "U+2007", "U+2008", "U+2009", "U+200A", "U+2028", "U+2029", "U+202F",
     "U+205F", "U+3000"}

RECURSIVE lstrip(_)
lstrip(s) ==
    IF s # <<>> /\ Head(s) \in Whitespace THEN lstrip(Tail(s)) ELSE s

RECURSIVE rstrip(_)
rstrip(s) ==
    IF s # <<>> /\ s[Len(s)] \in Whitespace
    THEN rstrip(SubSeq(s, 1, Len(s) - 1))
    ELSE s

\* str.strip()
strip(s) == rstrip(lstrip(s))

\* str.startswith(prefix)
startswith(s, prefix) ==
    /\ Len(s) >= Len(prefix)
    /\ SubSeq(s, 1, Len(prefix)) = prefix

\* seq[-n:] for n > 0
LastN(seq, n) ==
    IF Len(seq) <= n THEN seq ELSE SubSeq(seq, Len(seq) - n + 1, Len(seq))

\* seq[:n]
FirstN(seq, n) ==
    IF Len(seq) <= n THEN seq ELSE SubSeq(seq, 1, n)

\* sep.join(parts)
RECURSIVE Join(_, _)
Join(sep, parts) ==
    IF parts = <<>> THEN <<>>
    ELSE IF Len(parts) = 1 THEN parts[1]
    ELSE parts[1] \o sep \o Join(sep, Tail(parts))

\* repr() of a str without quotes, backslashes or control characters
PyRepr(s) == <<"'">> \o s \o <<"'">>

\* str() of a list of str
PyStrList(list) ==
    <<"[">> \o Join(<<",", " ">>, [i \in 1..Len(list) |-> PyRepr(list[i])])
            \o <<"]">>

(***************************************************************************)
(* datetime.now().strftime(...), for a clock within January 2025.          *)
(***************************************************************************)
Digit(d) == <<"0", "1", "2", "3", "4", "5", "6", "7", "8", "9">>[d + 1]

TwoDigits(n) == <<Digit((n \div 10) % 10), Digit(n % 10)>>

\* strftime('%Y-%m-%d')
StrfDate(c) == S_YearMonth \o TwoDigits((c \div 86400) + 1)

\* strftime('%Y-%m-%d %H:%M:%S')
StrfDateTime(c) ==
    StrfDate(c) \o <<" ">> \o TwoDigits((c % 86400) \div 3600)
                \o <<":">> \o TwoDigits((c % 3600) \div 60)
                \o <<":">> \o TwoDigits(c % 60)

(***************************************************************************)
(* The transcript.  A line is the JSON value json.loads() makes of it:     *)
(*   parse    "object", "other" (valid JSON, not an object), "invalid"     *)
(*            (json.loads raises JSONDecodeError) or "refused" (json.loads *)
(*            raises another exception: RecursionError on a deeply nested  *)
(*            value, ValueError on an integer beyond the digit limit)      *)
(*   type     the value of "type", "absent" when there is none             *)
(*   message  "object", "absent", or "other" (not an object)               *)
(*   content  "str": message.content is the string text                    *)
(*            "list_dict": a list whose first element is an object with    *)
(*                         the string text as "text" ('' when missing)     *)
(*            "list_other": a list whose first element is not an object,   *)
(*                         text is str() of it                             *)
(*            "list_empty", "absent", "other": no text                     *)
(***************************************************************************)
Entry(parse, type, message, content, text) ==
    [parse |-> parse, type |-> type, message |-> message,
     content |-> content, text |-> text]

UserStr(t) == Entry("object", "user", "object", "str", t)

UserBlocks(t) == Entry("object", "user", "object", "list_dict", t)

UserRawList(t) == Entry("object", "user", "object", "list_other", t)

AssistantStr(t) == Entry("object", "assistant", "object", "str", t)

NoTypeStr(t) == Entry("object", "absent", "object", "str", t)

UserNoMessage == Entry("object", "user", "absent", "absent", <<>>)

UserBadMessage == Entry("object", "user", "other", "absent", <<>>)

UserEmptyList == Entry("object", "user", "object", "list_empty", <<>>)

UserOtherContent == Entry("object", "user", "object", "other", <<>>)

BadLine == Entry("invalid", "absent", "absent", "absent", <<>>)

NonObjectLine == Entry("other", "absent", "absent", "absent", <<>>)

RefusedLine == Entry("refused", "absent", "absent", "absent", <<>>)

\* the path of the transcript file that exists
TranscriptPath == "t.jsonl"

\* a path no file has
MissingPath == "missing.jsonl"

PathExistsAlways(path) == TRUE

\* Path(transcript_path).exists()
PathExists(path) == path = TranscriptPath

(***************************************************************************)
(* extract_user_messages_from_transcript                                   *)
(***************************************************************************)
\* lines 61-72: the text of an entry's message.content
text_content(entry) ==
    IF entry.content \in {"str", "list_dict", "list_other"}
    THEN entry.text
    ELSE <<>>

SkipPrefixesNoCaveat == {P_command, P_StopHook, P_Interrupted}

\* the prefixes of lines 79-82
SkipPrefixes == {P_command, P_StopHook, P_Interrupted, P_Caveat}

\* lines 79-83: the condition under which a stripped text is kept
KeepNoCaveat(text) ==
    /\ \A prefix \in SkipPrefixesNoCaveat : ~startswith(text, prefix)
    /\ Len(text) >= min_message_length

Keep(text) ==
    /\ \A prefix \in SkipPrefixes : ~startswith(text, prefix)
    /\ Len(text) >= min_message_length

\* lines 52-87: the body of the loop, for one line
ScanLine(user_messages, entry) ==
    IF entry.parse # "object" THEN user_messages
    ELSE IF entry.type # "user" THEN user_messages
    ELSE IF entry.message = "other" THEN user_messages
    ELSE IF text_content(entry) = <<>> THEN user_messages
    ELSE IF Keep(strip(text_content(entry)))
         THEN Append(user_messages, strip(text_content(entry)))
         ELSE user_messages

\* line 53 on a line whose exception line 86 does not catch
Escapes(entry) == entry.parse = "refused"

\* line 51: the loop; an exception that escapes the body ends it (lines
\* 89-91) with the messages collected so far
RECURSIVE ScanLines(_, _)
ScanLines(user_messages, lines) ==
    IF lines = <<>> THEN user_messages
    ELSE IF Escapes(Head(lines)) THEN user_messages
    ELSE ScanLines(ScanLine(user_messages, Head(lines)), Tail(lines))

\* line 51: lines[-CONFIG['max_transcript_lines']:]
Window(lines) == LastN(lines, max_transcript_lines)

\* line 93
Capture(user_messages) ==
    IF user_messages # <<>>
    THEN LastN(user_messages, max_messages_per_capture)
    ELSE <<>>

extract_user_messages_from_transcript(transcript_path, session_id) ==
    IF ~PathExists(transcript_path) THEN <<>>
    ELSE IF "transcript" \in faults THEN <<>>
    ELSE Capture(ScanLines(<<>>, Window(transcript)))
(***************************************************************************)
(* The payload on standard input, as json.load() sees it:                  *)
(*   json             "object", "other" (valid JSON, not an object),       *)
(*                    "invalid" (text that is not JSON), "undecodable"     *)
(*                    (bytes that are not UTF-8 and not JSON however they  *)
(*                    are decoded) or "refused" (a JSON object with the    *)
(*                    members below and one more that makes json.load      *)
(*                    raise RecursionError or ValueError: a deeply nested  *)
(*                    value, an integer beyond the digit limit)            *)
(*   tool_name        [has, val], val a text                               *)
(*   session_id       [kind, val], kind "absent", "str" or "num" (a        *)
(*                    non-zero number)                                     *)
(*   transcript_path  [has, val]                                           *)
(*   fields           the other members, a sequence of [k, v], v a text    *)
(***************************************************************************)
Payload(json, tool_name, session_id, transcript_path, fields) ==
    [json |-> json, tool_name |-> tool_name, session_id |-> session_id,
     transcript_path |-> transcript_path, fields |-> fields]

Absent == [has |-> FALSE, val |-> <<>>]

Tool(t) == [has |-> TRUE, val |-> t]

NoSid == [kind |-> "absent", val |-> <<>>]

Sid(s) == [kind |-> "str", val |-> s]

NumSid == [kind |-> "num", val |-> <<>>]

NoPath == [has |-> FALSE, val |-> ""]

PathOf(path) == [has |-> TRUE, val |-> path]

NoPayload == Payload("none", Absent, NoSid, NoPath, <<>>)

InvalidJson == Payload("invalid", Absent, NoSid, NoPath, <<>>)

NonObjectJson == Payload("other", Absent, NoSid, NoPath, <<>>)

UndecodableInput == Payload("undecodable", Absent, NoSid, NoPath, <<>>)

\* input_data.get('tool_name', 'unknown')
GetToolName(input_data) ==
    IF input_data.tool_name.has THEN input_data.tool_name.val ELSE S_unknown

\* input_data.get('session_id', default), for a default that is a text
GetSessionId(input_data, default) ==
    IF input_data.session_id.kind = "absent"
    THEN [kind |-> "str", val |-> default]
    ELSE input_data.session_id

\* the truth value of a session id
Truthy(session_id) ==
    session_id.kind = "num" \/ session_id.val # <<>>

(***************************************************************************)
(* extract_user_context                                                    *)
(***************************************************************************)
potential_user_fields ==
    <<S_user_message, S_message, S_prompt, S_input, S_context, S_user_input,
      S_query, S_request, S_content, S_text, S_user_context,
      S_conversation_context>>

NoContext == [recent_user_messages |-> <<>>, fields |-> <<>>]

\* input_data[field], for a field that input_data has
FieldValue(input_data, field) ==
    LET i == CHOOSE j \in 1..Len(input_data.fields) :
                 input_data.fields[j].k = field
    IN  input_data.fields[i].v

HasField(input_data, field) ==
    \E j \in 1..Len(input_data.fields) : input_data.fields[j].k = field

\* lines 124-126
RECURSIVE CopyFields(_, _)
CopyFields(input_data, names) ==
    IF names = <<>> THEN <<>>
    ELSE IF HasField(input_data, Head(names))
         THEN <<[k |-> Head(names), v |-> FieldValue(input_data, Head(names))]>>
              \o CopyFields(input_data, Tail(names))
         ELSE CopyFields(input_data, Tail(names))

\* line 110: input_data.get('session_id', '')
SessionIdForExtraction(input_data) == GetSessionId(input_data, <<>>)

\* lines 109-115
RecentMessages(input_data) ==
    IF /\ input_data.transcript_path.has
       /\ input_data.transcript_path.val # ""
       /\ Truthy(SessionIdForExtraction(input_data))
    THEN extract_user_messages_from_transcript(
             input_data.transcript_path.val,
             SessionIdForExtraction(input_data))
    ELSE <<>>

extract_user_context(input_data) ==
    [recent_user_messages |-> RecentMessages(input_data),
     fields |-> CopyFields(input_data, potential_user_fields)]

\* the truth value of the dict user_context
NonEmpty(context) ==
    context.recent_user_messages # <<>> \/ context.fields # <<>>

\* user_context.items(), every value as str() makes it
Items(context) ==
    (IF context.recent_user_messages # <<>>
     THEN <<[k |-> S_recent_user_messages,
             v |-> PyStrList(context.recent_user_messages)]>>
     ELSE <<>>) \o context.fields

\* user_context.keys()
Keys(context) == {Items(context)[i].k : i \in 1..Len(Items(context))}

(***************************************************************************)
(* create_log_entry                                                        *)
(***************************************************************************)
\* line 146
FormatItem(item) ==
    IF Len(item.v) > MaxValueLen
    THEN item.k \o S_Colon \o FirstN(item.v, MaxValueLen) \o S_Ellipsis
    ELSE item.k \o S_Colon \o item.v

\* lines 145-148
context_str(context) ==
    Join(S_Sep, [i \in 1..Len(Items(context)) |-> FormatItem(Items(context)[i])])

SessionPrefixShort(session_id) == FirstN(session_id, SessionPrefixLen - 1)

\* session_id[:8]
SessionPrefix(session_id) == FirstN(session_id, SessionPrefixLen)

create_log_entry(ts, session_id, tool_name, context) ==
    <<"[">> \o ts \o <<"]", " ", "[">> \o SessionPrefix(session_id)
            \o <<"]", " ">> \o S_ToolPrefix \o tool_name
            \o (IF NonEmpty(context)
                THEN S_UserContext \o context_str(context)
                ELSE S_NoContext)
            \o <<"\n">>

(***************************************************************************)
(* The statistics file and update_statistics.  The content of the file is  *)
(*   state  "missing", "corrupt" (json.load or lines 192-200 raise on it)  *)
(*          or "ok" (a counters object)                                    *)
(*   data   the counters object: keys is the set of its members            *)
(*   size   the number of bytes in the file                                *)
(***************************************************************************)
EmptyMap == [t \in {} |-> 0]

\* m.get(k, d)
MapGet(m, k, d) == IF k \in DOMAIN m THEN m[k] ELSE d

\* stats = {}
EmptyStats ==
    [keys |-> {}, total_interactions |-> 0, tools_triggered |-> EmptyMap,
     interactions_with_context |-> 0, context_fields_found |-> EmptyMap]

\* the number of digits of n
RECURSIVE DigitsLen(_)
DigitsLen(n) == IF n < 10 THEN 1 ELSE 1 + DigitsLen(n \div 10)

\* the sum of f[k] over the keys k
RECURSIVE SumOver(_, _)
SumOver(f, keys) ==
    IF keys = {} THEN 0
    ELSE LET k == CHOOSE x \in keys : TRUE
         IN  f[k] + SumOver(f, keys \ {k})

\* the length of json.dumps(m, indent=2) for a dict m of counters one level
\* down: every member on a line of its own behind 4 blanks
MapSize(m) ==
    IF DOMAIN m = {} THEN 2
    ELSE 2 + SumOver([k \in DOMAIN m |-> 4 + (Len(k) + 2) + 2 + DigitsLen(m[k])],
                     DOMAIN m)
           + 2 * (Cardinality(DOMAIN m) - 1) + 4

\* the length of one member of the counters object, behind 2 blanks
MemberSize(s, key) ==
    IF key = "total_interactions"
    THEN 2 + 20 + 2 + DigitsLen(s.total_interactions)
    ELSE IF key = "tools_triggered"
    THEN 2 + 17 + 2 + MapSize(s.tools_triggered)
    ELSE IF key = "interactions_with_context"
    THEN 2 + 27 + 2 + DigitsLen(s.interactions_with_context)
    ELSE 2 + 22 + 2 + MapSize(s.context_fields_found)

\* line 206: the length of what json.dump(stats, f, indent=2) writes
JsonSize(s) ==
    IF s.keys = {} THEN 2
    ELSE 2 + SumOver([key \in s.keys |-> MemberSize(s, key)], s.keys)
           + 2 * (Cardinality(s.keys) - 1) + 2

StatsMissing == [state |-> "missing", data |-> EmptyStats, size |-> 0]

\* a file that holds '{bad'
StatsCorrupt == [state |-> "corrupt", data |-> EmptyStats, size |-> 4]

\* line 205: the file as open(stats_file, 'w') leaves it
StatsEmptied == [state |-> "corrupt", data |-> EmptyStats, size |-> 0]

StatsOk(data) == [state |-> "ok", data |-> data, size |-> JsonSize(data)]

\* stats.get('total_interactions', 0) and the like
GetTotal(s) ==
    IF "total_interactions" \in s.keys THEN s.total_interactions ELSE 0

GetTools(s) ==
    IF "tools_triggered" \in s.keys THEN s.tools_triggered ELSE EmptyMap

GetWithContext(s) ==
    IF "interactions_with_context" \in s.keys
    THEN s.interactions_with_context ELSE 0

GetFieldsFound(s) ==
    IF "context_fields_found" \in s.keys
    THEN s.context_fields_found ELSE EmptyMap

\* lines 192-194
CountInteraction(s, tool_name) ==
    [s EXCEPT
        !.keys = @ \cup {"total_interactions", "tools_triggered"},
        !.total_interactions = GetTotal(s) + 1,
        !.tools_triggered =
            [t \in DOMAIN GetTools(s) \cup {tool_name} |->
                IF t = tool_name
                THEN MapGet(GetTools(s), tool_name, 0) + 1
                ELSE GetTools(s)[t]]]

\* lines 196-200
CountContext(s, context) ==
    IF NonEmpty(context)
    THEN [s EXCEPT
            !.keys = @ \cup {"interactions_with_context",
                             "context_fields_found"},
            !.interactions_with_context = GetWithContext(s) + 1,
            !.context_fields_found =
                [f \in DOMAIN GetFieldsFound(s) \cup Keys(context) |->
                    IF f \in Keys(context)
                    THEN MapGet(GetFieldsFound(s), f, 0) + 1
                    ELSE GetFieldsFound(s)[f]]]
    ELSE s

\* lines 192-200
UpdatedStats(s, tool_name, context) ==
    CountContext(CountInteraction(s, tool_name), context)

\* line 230
LoggableContextOnly(tool_name, context) == NonEmpty(context)

Loggable(tool_name, context) ==
    NonEmpty(context) \/ tool_name # S_unknown

\* lines 246-252: the exit status for what json.load and the rest raise
ExitStatus(raised) ==
    IF raised = "JSONDecodeError" THEN 1 ELSE 0
(***************************************************************************)
(* The inputs of the model.                                                *)
(***************************************************************************)
Procs == 1..(IF MaxRuns > MaxOverlap THEN MaxRuns ELSE MaxOverlap)

\* the scenario of the specification: a tool, a long session id, t.jsonl
E_Bash == Payload("object", Tool(S_Bash), Sid(S_SidLong), PathOf(TranscriptPath), <<>>)

E_BashMissing == Payload("object", Tool(S_Bash), Sid(S_SidLong), PathOf(MissingPath), <<>>)

E_BashNoSid == Payload("object", Tool(S_Bash), NoSid, PathOf(TranscriptPath), <<>>)

E_BashNumSid == Payload("object", Tool(S_Bash), NumSid, PathOf(TranscriptPath), <<>>)

E_EditPrompt ==
    Payload("object", Tool(S_Edit), Sid(S_SidLong), PathOf(MissingPath),
            <<[k |-> S_text, v |-> T_Other], [k |-> S_prompt, v |-> T_Prompt]>>)

E_NoToolMissing == Payload("object", Absent, Sid(S_SidLong), PathOf(MissingPath), <<>>)

\* the scenario with one more member, an integer of 5000 digits
RefusedJson == Payload("refused", Tool(S_Bash), Sid(S_SidLong), PathOf(TranscriptPath), <<>>)

Events ==
    {E_Bash, E_BashMissing, E_BashNoSid, E_BashNumSid, E_EditPrompt,
     E_NoToolMissing, InvalidJson, NonObjectJson, UndecodableInput,
     RefusedJson}

\* the payloads of overlapping runs: either of the first two may be the
\* one whose counters object is the longer
ConcEvents(p) == IF p <= 2 THEN {E_Bash, E_EditPrompt} ELSE {E_Bash}

\* the payloads of the runs that exercise the extractor
ExtractEvents == {E_Bash}

Fill(n) == [i \in 1..n |-> AssistantStr(T_Ok)]

Tr_Scenario == <<AssistantStr(T_Assistant), UserStr(T_Refactor)>>

Tr_Long ==
    <<UserStr(T_Long), UserBlocks(T_Long), BadLine, UserStr(T_Short),
      UserRawList(T_Long), AssistantStr(T_Assistant), UserStr(T_Long)>>

\* a line json.loads refuses before the qualifying last line
Tr_Refused == <<RefusedLine, UserStr(T_Refactor)>>

RunTranscripts == {Tr_Scenario, Tr_Long, Tr_Refused}

TailEntries ==
    {UserStr(T_Refactor), UserStr(T_Short), UserStr(T_Caveat), BadLine,
     RefusedLine}

AllEntries ==
    {UserStr(t) : t \in {T_Refactor, T_AddTests, T_Short, T_Nine, T_Ten,
                         T_PaddedShort, T_Command, T_StopHook, T_Interrupted,
                         T_Caveat, T_PaddedCaveat, T_Long, T_NbspNine,
                         T_FormFeedTen, <<>>}}
    \cup {UserBlocks(T_Prompt), UserBlocks(T_Short), UserBlocks(<<>>),
          UserRawList(T_Other), UserRawList(T_Nine),
          AssistantStr(T_Assistant), NoTypeStr(T_Old),
          Entry("object", "user", "other", "str", T_Old),
          Entry("other", "user", "object", "str", T_Old),
          UserNoMessage, UserBadMessage, UserEmptyList, UserOtherContent,
          BadLine, NonObjectLine, RefusedLine}

Tails(k, entries) == UNION {[1..n -> entries] : n \in 0..k}

ExtractTranscripts ==
    {head \o Fill(n) \o tail :
        head \in {<<UserStr(T_Old)>>},
        n \in (MaxFill - 4)..MaxFill,
        tail \in Tails(MaxTail, TailEntries)}
    \cup
    {Fill(n) \o tail :
        n \in {0, max_transcript_lines - 1},
        tail \in Tails(2, AllEntries)}

FaultSets ==
    {{}, {"transcript"}, {"main_log"}, {"daily_log"}, {"stats_read"},
     {"stats_write"}, {"stats_dump"}}

\* the file size limits (in bytes) a "stats_dump" fault stands for
FileSizeLimits == {0, 120}

PopulatedStats ==
    [keys |-> {"total_interactions", "tools_triggered",
               "interactions_with_context"},
     total_interactions |-> 5,
     tools_triggered |-> [t \in {S_Bash, S_unknown} |-> IF t = S_Bash THEN 2 ELSE 3],
     interactions_with_context |-> 4,
     context_fields_found |-> EmptyMap]

InitialStats ==
    {StatsMissing, StatsCorrupt, StatsOk(EmptyStats), StatsOk(PopulatedStats)}

Dates == {StrfDate(c) : c \in ClockStart..(ClockStart + MaxTicks)}

(***************************************************************************)
(* The state before any run.                                               *)
(***************************************************************************)
InitLocals ==
    /\ pc = [p \in Procs |-> "start"]
    /\ event = [p \in Procs |-> NoPayload]
    /\ timestamp = [p \in Procs |-> <<>>]
    /\ user_context = [p \in Procs |-> NoContext]
    /\ log_entry = [p \in Procs |-> <<>>]
    /\ stats = [p \in Procs |-> EmptyStats]
    /\ exit_code = [p \in Procs |-> -1]

InitFiles ==
    /\ clock = ClockStart
    /\ main_log = <<>>
    /\ daily_logs = [d \in Dates |-> <<>>]

\* the file systems the runs start from
InitialConfigs ==
    {[f |-> {}, t |-> t, s |-> StatsOk(PopulatedStats)] : t \in RunTranscripts}
    \cup {[f |-> {}, t |-> Tr_Scenario, s |-> s] : s \in InitialStats}
    \cup {[f |-> f, t |-> Tr_Scenario, s |-> StatsOk(PopulatedStats)] :
              f \in FaultSets}

Init ==
    /\ InitLocals
    /\ InitFiles
    /\ \E c \in InitialConfigs :
           /\ faults = c.f
           /\ transcript = c.t
           /\ stats_file = c.s

InitConc ==
    /\ InitLocals
    /\ InitFiles
    /\ faults = {}
    /\ transcript = Tr_Scenario
    /\ stats_file = StatsOk(PopulatedStats)

InitExtract ==
    /\ InitLocals
    /\ InitFiles
    /\ faults = {}
    /\ transcript \in ExtractTranscripts
    /\ stats_file = StatsMissing

(***************************************************************************)
(* main, one run p of the hook.                                            *)
(***************************************************************************)
\* the run ends: sys.exit, or main returns
Finish(p, raised) ==
    /\ pc' = [pc EXCEPT ![p] = "done"]
    /\ exit_code' = [exit_code EXCEPT ![p] = ExitStatus(raised)]

\* lines 217-232: read the payload, extract the context, make the log entry
Start(p, e) ==
    /\ pc[p] = "start"
    /\ event' = [event EXCEPT ![p] = e]
    /\ IF e.json = "invalid"
       THEN /\ Finish(p, "JSONDecodeError")
            /\ UNCHANGED <<timestamp, user_context, log_entry>>
       ELSE IF e.json = "undecodable"
       THEN \* sys.stdin decodes strictly and json.load raises
            \* UnicodeDecodeError, or it decodes with surrogateescape (the
            \* C locale) and json.load raises JSONDecodeError
            /\ \E raised \in {"Exception", "JSONDecodeError"} :
                   Finish(p, raised)
            /\ UNCHANGED <<timestamp, user_context, log_entry>>
       ELSE IF e.json = "refused"
       THEN \* json.load raises RecursionError or ValueError
            /\ Finish(p, "Exception")
            /\ UNCHANGED <<timestamp, user_context, log_entry>>
       ELSE IF e.json = "other"
       THEN \* input_data.get raises AttributeError
            /\ Finish(p, "Exception")
            /\ UNCHANGED <<timestamp, user_context, log_entry>>
       ELSE
         LET tool_name  == GetToolName(e)
             session_id == GetSessionId(e, S_unknown)
             context    == extract_user_context(e)
         IN  /\ timestamp' = [timestamp EXCEPT ![p] = StrfDateTime(clock)]
             /\ user_context' = [user_context EXCEPT ![p] = context]
             /\ IF ~Loggable(tool_name, context)
                THEN /\ Finish(p, "none")
                     /\ UNCHANGED log_entry
                ELSE IF session_id.kind = "num"
                THEN \* session_id[:8] raises TypeError
                     /\ Finish(p, "Exception")
                     /\ UNCHANGED log_entry
                ELSE /\ log_entry' =
                            [log_entry EXCEPT ![p] =
                                create_log_entry(StrfDateTime(clock),
                                    session_id.val, tool_name, context)]
                     /\ pc' = [pc EXCEPT ![p] = "write_main"]
                     /\ UNCHANGED exit_code
    /\ UNCHANGED <<clock, faults, transcript, files, stats>>

\* line 236: write_to_log_file(log_entry, main_log_file)
WriteMain(p) ==
    /\ pc[p] = "write_main"
    /\ main_log' = IF "main_log" \in faults
                   THEN main_log
                   ELSE Append(main_log, log_entry[p])
    /\ pc' = [pc EXCEPT ![p] = IF enable_daily_logs THEN "write_daily"
                               ELSE "stats_read"]
    /\ UNCHANGED <<clock, faults, transcript, daily_logs, stats_file, event,
                   timestamp, user_context, log_entry, stats, exit_code>>

\* lines 239-241: the daily log, named by the date at the time of the write
WriteDaily(p) ==
    /\ pc[p] = "write_daily"
    /\ daily_logs' = IF "daily_log" \in faults
                     THEN daily_logs
                     ELSE [daily_logs EXCEPT ![StrfDate(clock)] =
                              Append(@, log_entry[p])]
    /\ pc' = [pc EXCEPT ![p] = "stats_read"]
    /\ UNCHANGED <<clock, faults, transcript, main_log, stats_file, event,
                   timestamp, user_context, log_entry, stats, exit_code>>

\* lines 180-200 of update_statistics: read the file, count
StatsRead(p) ==
    /\ pc[p] = "stats_read"
    /\ IF ~enable_statistics
       THEN Finish(p, "none") /\ UNCHANGED stats
       ELSE IF \/ stats_file.state = "corrupt"
               \/ (stats_file.state = "ok" /\ "stats_read" \in faults)
       THEN \* lines 208-210: the exception is swallowed
            Finish(p, "none") /\ UNCHANGED stats
       ELSE /\ stats' = [stats EXCEPT ![p] =
                  UpdatedStats(IF stats_file.state = "missing"
                               THEN EmptyStats ELSE stats_file.data,
                               GetToolName(event[p]), user_context[p])]
            /\ pc' = [pc EXCEPT ![p] = "stats_open"]
            /\ UNCHANGED exit_code
    /\ UNCHANGED <<clock, faults, transcript, files, event, timestamp,
                   user_context, log_entry>>

\* lines 203-205: open(stats_file, 'w') creates the file or empties it; a
\* refused mkdir or open leaves it as it is
StatsOpen(p) ==
    /\ pc[p] = "stats_open"
    /\ IF "stats_write" \in faults
       THEN /\ Finish(p, "none")
            /\ UNCHANGED stats_file
       ELSE /\ stats_file' = StatsEmptied
            /\ pc' = [pc EXCEPT ![p] = "stats_dump"]
            /\ UNCHANGED exit_code
    /\ UNCHANGED <<clock, faults, transcript, main_log, daily_logs, event,
                   timestamp, user_context, log_entry, stats>>

\* what line 206 would leave if the counts were taken from the file as it
\* is at the time of the write
DumpedLocked(current, local, tool_name, context) ==
    StatsOk(UpdatedStats(IF current.state = "ok" THEN current.data
                         ELSE EmptyStats, tool_name, context))

\* line 206: json.dump(stats, f, indent=2) and the close write the text at
\* offset 0 of the file; what another run wrote beyond its end since line
\* 205 stays, and the file is not JSON
Dumped(current, local, tool_name, context) ==
    IF current.size > JsonSize(local)
    THEN [state |-> "corrupt", data |-> EmptyStats, size |-> current.size]
    ELSE StatsOk(local)

\* line 206 under a file size limit of limit bytes: a text within the limit
\* is written whole; of a longer one the first limit bytes are written and
\* the rest is refused (EFBIG, swallowed at line 208), which leaves a file
\* that is not JSON.  Runs under a limit do not overlap, so the file is as
\* line 205 left it and nothing lies beyond the bytes written.
DumpedUpTo(limit, current, local, tool_name, context) ==
    IF JsonSize(local) <= limit
    THEN Dumped(current, local, tool_name, context)
    ELSE [state |-> "corrupt", data |-> EmptyStats,
          size |-> IF current.size > limit THEN current.size ELSE limit]

\* line 206; with the fault "stats_dump" a file size limit is in force
StatsDump(p) ==
    /\ pc[p] = "stats_dump"
    /\ IF "stats_dump" \in faults
       THEN \E limit \in FileSizeLimits :
                stats_file' = DumpedUpTo(limit, stats_file, stats[p],
                                  GetToolName(event[p]), user_context[p])
       ELSE stats_file' = Dumped(stats_file, stats[p],
                              GetToolName(event[p]), user_context[p])
    /\ Finish(p, "none")
    /\ UNCHANGED <<clock, faults, transcript, main_log, daily_logs, event,
                   timestamp, user_context, log_entry, stats>>

\* time passes
Tick ==
    /\ clock < ClockStart + MaxTicks
    /\ clock' = clock + 1
    /\ UNCHANGED <<faults, transcript, files, locals>>

(***************************************************************************)
(* Runs executed one after another.                                        *)
(***************************************************************************)
StartSeq(p, e) ==
    /\ \A q \in Procs \ {p} : pc[q] \in {"start", "done"}
    /\ \A q \in 1..(p - 1) : pc[q] = "done"
    /\ Start(p, e)

Next ==
    \/ \E p \in 1..MaxRuns : \E e \in Events : StartSeq(p, e)
    \/ \E p \in 1..MaxRuns : WriteMain(p)
    \/ \E p \in 1..MaxRuns : WriteDaily(p)
    \/ \E p \in 1..MaxRuns : StatsRead(p)
    \/ \E p \in 1..MaxRuns : StatsOpen(p)
    \/ \E p \in 1..MaxRuns : StatsDump(p)
    \/ Tick

Spec == Init /\ [][Next]_vars

(***************************************************************************)
(* Runs that overlap.                                                      *)
(***************************************************************************)
StartConc(p, e) ==
    /\ \A q \in 1..(p - 1) : pc[q] # "start"
    /\ Start(p, e)

NextConc ==
    \/ \E p \in 1..MaxOverlap : \E e \in ConcEvents(p) : StartConc(p, e)
    \/ \E p \in 1..MaxOverlap : WriteMain(p)
    \/ \E p \in 1..MaxOverlap : WriteDaily(p)
    \/ \E p \in 1..MaxOverlap : StatsRead(p)
    \/ \E p \in 1..MaxOverlap : StatsOpen(p)
    \/ \E p \in 1..MaxOverlap : StatsDump(p)

SpecConc == InitConc /\ [][NextConc]_vars

(***************************************************************************)
(* One run over each of a family of transcripts.                           *)
(***************************************************************************)
NextExtract ==
    \/ \E e \in ExtractEvents : Start(1, e)
    \/ WriteMain(1)
    \/ WriteDaily(1)
    \/ StatsRead(1)
    \/ StatsOpen(1)
    \/ StatsDump(1)

SpecExtract == InitExtract /\ [][NextExtract]_vars
(***************************************************************************)
(* Properties.                                                             *)
(***************************************************************************)
\* run p has read a payload that makes it scan the transcript t.jsonl
Scanned(p) ==
    /\ pc[p] # "start"
    /\ event[p].json = "object"
    /\ event[p].transcript_path = PathOf(TranscriptPath)
    /\ event[p].session_id.kind = "str"
    /\ event[p].session_id.val # <<>>
    /\ "transcript" \notin faults

\* the text a transcript line contributes to the result, <<>> if none
MessageOf(entry) ==
    IF ScanLine(<<>>, entry) = <<>> THEN <<>> ELSE ScanLine(<<>>, entry)[1]

\* the lines of the transcript among its last 20
Last20 == {i \in 1..Len(transcript) : i > Len(transcript) - 20}

\* the lines among the last 20 that hold a qualifying user message
QualifyingLines == {i \in Last20 : MessageOf(transcript[i]) # <<>>}

\* the last 3 of them
Last3Qualifying ==
    {i \in QualifyingLines : Cardinality({j \in QualifyingLines : j > i}) < 3}

\* C7: the extractor returns at most 3 messages, all from the last 20 lines
\* of the transcript, and they are exactly the last 3 (or fewer) qualifying
\* messages of those lines in transcript order, most recent last.
C7_WindowAndBound ==
    \A p \in Procs :
        Scanned(p) =>
            LET result == user_context[p].recent_user_messages
            IN  /\ Len(result) <= 3
                /\ Len(result) = Cardinality(Last3Qualifying)
                /\ \A i \in Last3Qualifying :
                       result[1 + Cardinality({j \in Last3Qualifying : j < i})]
                           = MessageOf(transcript[i])

\* the lines among the last 20 before the first one json.loads refuses
BeforeRefusal ==
    {i \in Last20 :
        \A j \in Last20 : j <= i => transcript[j].parse # "refused"}

\* the last 3 qualifying lines among them
Last3BeforeRefusal ==
    {i \in QualifyingLines \cap BeforeRefusal :
        Cardinality({j \in QualifyingLines \cap BeforeRefusal : j > i}) < 3}

\* what the extractor does return: at most 3 messages, the last 3 (or
\* fewer) qualifying messages of the lines among the last 20 that come
\* before the first line json.loads refuses
C7_UpToRefusedLine ==
    \A p \in Procs :
        Scanned(p) =>
            LET result == user_context[p].recent_user_messages
            IN  /\ Len(result) <= 3
                /\ Len(result) = Cardinality(Last3BeforeRefusal)
                /\ \A i \in Last3BeforeRefusal :
                       result[1 + Cardinality({j \in Last3BeforeRefusal : j < i})]
                           = MessageOf(transcript[i])

\* text begins with the characters of prefix
BeginsWith(text, prefix) ==
    /\ Len(text) >= Len(prefix)
    /\ \A i \in 1..Len(prefix) : text[i] = prefix[i]

\* C8: every returned message is the trimmed text of an entry of type
\* "user", is at least 10 characters long and starts with none of
\* "<command-", "Stop hook feedback", "[Request interrupted", "Caveat:".
C8_FilterInvariant ==
    \A p \in Procs :
        Scanned(p) =>
            \A k \in 1..Len(user_context[p].recent_user_messages) :
                LET m == user_context[p].recent_user_messages[k]
                IN  /\ Len(m) >= 10
                    /\ ~BeginsWith(m, P_command)
                    /\ ~BeginsWith(m, P_StopHook)
                    /\ ~BeginsWith(m, P_Interrupted)
                    /\ ~BeginsWith(m, P_Caveat)
                    /\ \E i \in 1..Len(transcript) :
                           /\ transcript[i].parse = "object"
                           /\ transcript[i].type = "user"
                           /\ strip(transcript[i].text) = m

\* a scan that returned something from a transcript that also holds a short
\* user entry and a user entry starting with "Caveat:"
C8_Witness ==
    /\ Scanned(1)
    /\ pc[1] = "done"
    /\ user_context[1].recent_user_messages # <<>>
    /\ \E i, j \in Last20 :
           /\ transcript[i] = UserStr(T_Caveat)
           /\ transcript[j] = UserStr(T_Short)

\* two payloads that differ at most in the session id
SameButSessionId(e1, e2) ==
    /\ e1.json = "object"
    /\ e2.json = "object"
    /\ e1.tool_name = e2.tool_name
    /\ e1.transcript_path = e2.transcript_path
    /\ e1.fields = e2.fields

\* C9: two runs whose payloads differ only in the session id (a string, or
\* absent) obtain the same recent_user_messages from the transcript.
C9_SessionIdIrrelevant ==
    \A p, q \in Procs :
        ( /\ pc[p] # "start"
          /\ pc[q] # "start"
          /\ SameButSessionId(event[p], event[q])
          /\ event[p].session_id.kind \in {"absent", "str"}
          /\ event[q].session_id.kind \in {"absent", "str"} )
        => user_context[p].recent_user_messages
               = user_context[q].recent_user_messages

\* the payload is not valid JSON
NotJson(e) == e.json \in {"invalid", "undecodable"}

\* C3: a run exits with status 1 exactly when its payload is not valid JSON,
\* and then no file is created or modified; every other run exits with
\* status 0.
C3_ExitCode ==
    [][\A p \in Procs :
          (pc[p] # "done" /\ pc'[p] = "done") =>
              /\ exit_code'[p] \in {0, 1}
              /\ exit_code'[p] = 1 <=> NotJson(event'[p])
              /\ NotJson(event'[p]) => files' = files]_vars

\* what the code does keep of C3: a run exits with status 0 or 1, with 1
\* only on a payload that is not valid JSON and always on one that is text;
\* a run on a payload that is not valid JSON changes no file.
C3_TextPayloads ==
    [][\A p \in Procs :
          (pc[p] # "done" /\ pc'[p] = "done") =>
              /\ exit_code'[p] \in {0, 1}
              /\ exit_code'[p] = 1 => NotJson(event'[p])
              /\ event'[p].json = "invalid" => exit_code'[p] = 1
              /\ NotJson(event'[p]) => files' = files]_vars

\* run p takes a step
Steps(p) == pc'[p] # pc[p]

\* a valid payload whose transcript_path names a file that does not exist
\* (the session id a string or absent)
MissingTranscript(e) ==
    /\ e.json = "object"
    /\ e.transcript_path.has
    /\ e.transcript_path.val # TranscriptPath
    /\ e.session_id.kind \in {"absent", "str"}

\* the payload names a tool other than 'unknown'
NamesTool(e) == e.tool_name.has /\ e.tool_name.val # S_unknown

\* the payload has one of the passthrough fields
HasPassthrough(e) ==
    \E i \in 1..Len(e.fields) : \E j \in 1..Len(potential_user_fields) :
        e.fields[i].k = potential_user_fields[j]

\* text ends with the characters of suffix
EndsWith(text, suffix) ==
    /\ Len(text) >= Len(suffix)
    /\ SubSeq(text, Len(text) - Len(suffix) + 1, Len(text)) = suffix

\* C2, as stated: a run on a payload whose transcript does not exist
\* extracts no messages, appends no line to the global log or to the daily
\* log, and exits with status 0.
C2_NoLineWithoutTranscript ==
    [][\A p \in Procs :
          (Steps(p) /\ MissingTranscript(event'[p])) =>
              /\ user_context'[p].recent_user_messages = <<>>
              /\ main_log' = main_log
              /\ daily_logs' = daily_logs
              /\ pc'[p] = "done" => exit_code'[p] = 0]_vars

\* C2, amended: such a run extracts no messages and exits with status 0; it
\* appends no line only when the payload has no tool name and no
\* passthrough field, and otherwise appends its log entry to the global log
\* and to the daily log, the entry ending in "No user context detected"
\* when the payload has no passthrough field.
C2_Amended ==
    [][\A p \in Procs :
          (Steps(p) /\ MissingTranscript(event'[p])) =>
              /\ user_context'[p].recent_user_messages = <<>>
              /\ pc'[p] = "done" => exit_code'[p] = 0
              /\ pc[p] = "start" =>
                    /\ pc'[p] = "write_main"
                          <=> (NamesTool(event'[p]) \/ HasPassthrough(event'[p]))
                    /\ pc'[p] # "write_main" =>
                          (pc'[p] = "done" /\ files' = files)
                    /\ (pc'[p] = "write_main" /\ ~HasPassthrough(event'[p])) =>
                          EndsWith(log_entry'[p], S_NoContext \o <<"\n">>)
              /\ (pc[p] = "write_main" /\ "main_log" \notin faults) =>
                    main_log' = Append(main_log, log_entry[p])
              /\ (pc[p] = "write_daily" /\ "daily_log" \notin faults) =>
                    daily_logs' = [daily_logs EXCEPT ![StrfDate(clock)] =
                                      Append(@, log_entry[p])]]_vars

\* a finished run on a missing transcript that left a "No user context
\* detected" line in the global log, and one that wrote nothing
C2_Witness ==
    \E p, q \in Procs :
        /\ pc[p] = "done" /\ MissingTranscript(event[p])
        /\ NamesTool(event[p]) /\ ~HasPassthrough(event[p])
        /\ exit_code[p] = 0
        /\ main_log # <<>>
        /\ EndsWith(main_log[Len(main_log)], S_NoContext \o <<"\n">>)
        /\ pc[q] = "done" /\ MissingTranscript(event[q])
        /\ ~NamesTool(event[q]) /\ ~HasPassthrough(event[q])

\* the text the last line of the transcript qualifies with, <<>> if none
LastUserText ==
    IF transcript = <<>> THEN <<>>
    ELSE LET last == transcript[Len(transcript)]
         IN  IF /\ last.parse = "object" /\ last.type = "user"
                /\ last.message = "object"
                /\ last.content \in {"str", "list_dict", "list_other"}
                /\ Len(strip(last.text)) >= 10
                /\ \A prefix \in {P_command, P_StopHook, P_Interrupted, P_Caveat} :
                       ~BeginsWith(strip(last.text), prefix)
             THEN strip(last.text)
             ELSE <<>>

\* the case of C4: a tool name, a session id of at least 8 characters, a
\* transcript whose last line is a qualifying user entry, files that can be
\* read and written
C4_Case(e) ==
    /\ e.json = "object"
    /\ e.tool_name.has
    /\ e.session_id.kind = "str"
    /\ Len(e.session_id.val) >= 8
    /\ e.transcript_path = PathOf(TranscriptPath)
    /\ LastUserText # <<>>
    /\ faults \cap {"transcript", "main_log", "daily_log"} = {}

\* [<timestamp>] [<first 8 characters of s>]
LinePrefix(p) ==
    <<"[">> \o timestamp[p] \o <<"]", " ", "[">>
            \o SubSeq(event[p].session_id.val, 1, 8) \o <<"]", " ">>

\* the line in message format
MessageLine(p) == LinePrefix(p) \o LastUserText \o <<"\n">>

\* a value, cut to 200 characters and "..." when it is longer
Cut200(value) ==
    IF Len(value) > 200 THEN SubSeq(value, 1, 200) \o S_Ellipsis ELSE value

\* the passthrough fields of the line, each behind " | "
RECURSIVE FieldsSuffix(_)
FieldsSuffix(fields) ==
    IF fields = <<>> THEN <<>>
    ELSE S_Sep \o fields[1].k \o S_Colon \o Cut200(fields[1].v)
               \o FieldsSuffix(Tail(fields))

\* the line in context-summary format; without extracted messages and
\* without passthrough fields it says so
ContextLine(p) ==
    LinePrefix(p) \o S_ToolPrefix \o event[p].tool_name.val
        \o (IF user_context[p].recent_user_messages # <<>>
            THEN S_UserContext \o S_recent_user_messages \o S_Colon
                 \o Cut200(PyStrList(user_context[p].recent_user_messages))
                 \o FieldsSuffix(user_context[p].fields)
            ELSE IF user_context[p].fields # <<>>
            THEN S_UserContext
                 \o SubSeq(FieldsSuffix(user_context[p].fields),
                           Len(S_Sep) + 1,
                           Len(FieldsSuffix(user_context[p].fields)))
            ELSE S_NoContext)
        \o <<"\n">>

\* no line among the last 20 of the transcript is one json.loads refuses
NoRefusedLine == \A i \in Last20 : transcript[i].parse # "refused"

Digits == {"0", "1", "2", "3", "4", "5", "6", "7", "8", "9"}

\* YYYY-MM-DD HH:MM:SS
IsTimestamp(ts) ==
    /\ Len(ts) = 19
    /\ \A i \in 1..19 :
           IF i \in {5, 8} THEN ts[i] = "-"
           ELSE IF i = 11 THEN ts[i] = " "
           ELSE IF i \in {14, 17} THEN ts[i] = ":"
           ELSE ts[i] \in Digits

AtRest == \A p \in Procs : pc[p] \in {"start", "done"}

\* run p is over and had something to log
Logged(p) ==
    /\ pc[p] = "done"
    /\ event[p].json = "object"
    /\ event[p].session_id.kind \in {"absent", "str"}
    /\ NamesTool(event[p]) \/ NonEmpty(user_context[p])

\* the number of lines in the daily logs
RECURSIVE DailyLines(_)
DailyLines(dates) ==
    IF dates = {} THEN 0
    ELSE LET d == CHOOSE x \in dates : TRUE
         IN  Len(daily_logs[d]) + DailyLines(dates \ {d})

\* a log entry without its timestamp
AfterTimestamp(entry) == SubSeq(entry, 22, Len(entry))

Grown(s, t) ==
    /\ s.keys \subseteq t.keys
    /\ GetTotal(s) <= GetTotal(t)
    /\ GetWithContext(s) <= GetWithContext(t)
    /\ DOMAIN GetTools(s) \subseteq DOMAIN GetTools(t)
    /\ \A k \in DOMAIN GetTools(s) : GetTools(s)[k] <= GetTools(t)[k]
    /\ DOMAIN GetFieldsFound(s) \subseteq DOMAIN GetFieldsFound(t)
    /\ \A k \in DOMAIN GetFieldsFound(s) :
           GetFieldsFound(s)[k] <= GetFieldsFound(t)[k]

\* C5: with runs executed one after another and a statistics file that
\* holds a counters object, every run that writes a log line goes on to the
\* statistics update, which takes the counters of the file, raises
\* total_interactions by 1 and tools_triggered[<tool>] by 1, makes no
\* counter smaller and removes none, and leaves the result in the file;
\* nothing else changes the file.
C5_CountersGrow ==
    [][/\ (\A p \in Procs : pc[p] \notin {"stats_open", "stats_dump"}) =>
             stats_file' = stats_file
       /\ \A p \in Procs :
            Steps(p) =>
                /\ pc[p] = "write_daily" => pc'[p] = "stats_read"
                /\ (pc[p] = "stats_read" /\ stats_file.state = "ok") =>
                      /\ pc'[p] = "stats_open"
                      /\ GetTotal(stats'[p]) = GetTotal(stats_file.data) + 1
                      /\ GetToolName(event[p]) \in DOMAIN GetTools(stats'[p])
                      /\ GetTools(stats'[p])[GetToolName(event[p])]
                             = MapGet(GetTools(stats_file.data),
                                      GetToolName(event[p]), 0) + 1
                      /\ Grown(stats_file.data, stats'[p])
                /\ pc[p] = "stats_open" =>
                      /\ pc'[p] = "stats_dump"
                      /\ stats'[p] = stats[p]
                /\ pc[p] = "stats_dump" =>
                      /\ pc'[p] = "done"
                      /\ stats_file'.state = "ok"
                      /\ stats_file'.data = stats[p]
      ]_vars

\* what the code does keep of C5: the same, for runs during which the
\* statistics file can be read, opened and written
C5_WritableFile ==
    [][/\ (\A p \in Procs : pc[p] \notin {"stats_open", "stats_dump"}) =>
             stats_file' = stats_file
       /\ \A p \in Procs :
            (Steps(p) /\ faults \cap {"stats_read", "stats_write", "stats_dump"} = {}) =>
                /\ pc[p] = "write_daily" => pc'[p] = "stats_read"
                /\ (pc[p] = "stats_read" /\ stats_file.state = "ok") =>
                      /\ pc'[p] = "stats_open"
                      /\ GetTotal(stats'[p]) = GetTotal(stats_file.data) + 1
                      /\ GetToolName(event[p]) \in DOMAIN GetTools(stats'[p])
                      /\ GetTools(stats'[p])[GetToolName(event[p])]
                             = MapGet(GetTools(stats_file.data),
                                      GetToolName(event[p]), 0) + 1
                      /\ Grown(stats_file.data, stats'[p])
                /\ pc[p] = "stats_open" =>
                      /\ pc'[p] = "stats_dump"
                      /\ stats'[p] = stats[p]
                /\ pc[p] = "stats_dump" =>
                      /\ pc'[p] = "done"
                      /\ stats_file'.state = "ok"
                      /\ stats_file'.data = stats[p]
      ]_vars

\* a logging run over the populated statistics file has left a file that is
\* not JSON: the counters are gone
C5_CountersLost ==
    /\ pc[1] = "done"
    /\ Len(main_log) = 1
    /\ GetTotal(stats[1]) = GetTotal(PopulatedStats) + 1
    /\ stats_file.state = "corrupt"

\* C6: when the statistics file is missing or corrupted as a logging run
\* comes to its statistics update, the update starts from empty counters
\* and writes them back: at the end of the run the file holds a counters
\* object with total_interactions = 1 and tools_triggered[<tool>] = 1.
C6_StatisticsRecovery ==
    [][\A p \in Procs :
          (Steps(p) /\ faults = {}) =>
              /\ ( /\ pc[p] = "stats_read"
                   /\ stats_file.state \in {"missing", "corrupt"} ) =>
                     /\ pc'[p] = "stats_open"
                     /\ GetTotal(stats'[p]) = 1
                     /\ MapGet(GetTools(stats'[p]), GetToolName(event[p]), 0) = 1
              /\ pc[p] = "stats_open" => pc'[p] = "stats_dump"
              /\ pc[p] = "stats_dump" =>
                     /\ stats_file'.state = "ok"
                     /\ stats_file'.data = stats[p]
                     /\ exit_code'[p] = 0]_vars

\* C6 for a missing file alone, which the code does recover
C6_MissingOnly ==
    [][\A p \in Procs :
          (Steps(p) /\ faults = {}) =>
              /\ (pc[p] = "stats_read" /\ stats_file.state = "missing") =>
                     /\ pc'[p] = "stats_open"
                     /\ GetTotal(stats'[p]) = 1
                     /\ MapGet(GetTools(stats'[p]), GetToolName(event[p]), 0) = 1
              /\ pc[p] = "stats_open" => pc'[p] = "stats_dump"
              /\ pc[p] = "stats_dump" =>
                     /\ stats_file'.state = "ok"
                     /\ stats_file'.data = stats[p]
                     /\ exit_code'[p] = 0]_vars

\* total_interactions before the overlapping runs
BaseTotal == PopulatedStats.total_interactions

\* C10: the statistics update is an unlocked read-modify-write.  A run
\* counts on top of what it read, and what it leaves in the file is that,
\* whatever was written since, or no JSON at all; so when the runs are over
\* a file that holds counters has total_interactions raised by at least 1
\* and at most their number (the witness shows less than their number, and
\* a write that lowers the persisted value).
C10_UnlockedReadModifyWrite ==
    [][/\ \A p \in Procs :
            (pc[p] = "stats_read" /\ pc'[p] = "stats_open") =>
                /\ stats_file.state = "ok"
                /\ GetTotal(stats'[p]) = GetTotal(stats_file.data) + 1
       /\ \A p \in Procs :
            (pc[p] = "stats_dump" /\ pc'[p] = "done") =>
                /\ stats_file'.state \in {"ok", "corrupt"}
                /\ stats_file'.state = "ok" => stats_file'.data = stats[p]
       /\ ( /\ \A p \in 1..MaxOverlap : pc'[p] = "done"
            /\ stats_file'.state = "ok" ) =>
             /\ GetTotal(stats_file'.data) >= BaseTotal + 1
             /\ GetTotal(stats_file'.data) <= BaseTotal + MaxOverlap
      ]_vars

\* three overlapping runs are over: two of them read the same statistics,
\* the file counts fewer interactions than runs, and one run had written a
\* larger total than the file now holds
C10_Witness ==
    /\ \A p \in 1..MaxOverlap : pc[p] = "done" /\ Len(main_log) = MaxOverlap
    /\ stats_file.state = "ok"
    /\ GetTotal(stats_file.data) < BaseTotal + MaxOverlap
    /\ \E p, q \in 1..MaxOverlap :
           /\ p # q
           /\ GetTotal(stats[p]) = GetTotal(stats[q])
           /\ GetTotal(stats[p]) > BaseTotal
    /\ \E r \in 1..MaxOverlap :
           GetTotal(stats[r]) > GetTotal(stats_file.data)
    /\ \A p \in 1..MaxOverlap : GetTotal(stats[p]) > BaseTotal

\* overlapping runs are over and have left a statistics file that is not
\* JSON: a shorter counters object written over the head of a longer one
C10_InvalidFile ==
    /\ \A p \in 1..MaxOverlap : pc[p] = "done"
    /\ stats_file.state = "corrupt"
    /\ stats_file.size > 0
====
